---- MODULE Spec2Model ----
(***************************************************************************)
(* DAG-PB codec (src/index.js): the link comparator, prepare, validate,    *)
(* encode and decode, with the protobuf wire layer (pb-encode.js and       *)
(* pb-decode.js) taken from the format description.                         *)
(*                                                                         *)
(* JavaScript values are tagged records.  A scalar value is [t, v]: t is   *)
(* the JavaScript type ("undefined", "string", "number", "Uint8Array",     *)
(* "cid", "object") and v a sequence of integers: the bytes of a           *)
(* Uint8Array, the code points of a string (an unpaired surrogate code     *)
(* unit standing as itself), the digest of a content identifier, the       *)
(* one-element sequence <<n>> of a number n.  A Tsize value is [t, k, n],  *)
(* k telling an integer from a fractional or non-finite number.            *)
(***************************************************************************)
EXTENDS Integers, Sequences, FiniteSets, TLC

\* ---------------------------------------------------------------- bounds
MaxLinks == 2
MaxNameLen == 2
\* width in bits of the unsigned wire integer (64 in protobuf, scaled down)
UintBits == 14

\* ---------------------------------------------------------------- values
Undefined == [t |-> "undefined", v |-> <<>>]
Bytes(b) == [t |-> "Uint8Array", v |-> b]
Str(s) == [t |-> "string", v |-> s]
Num(n) == [t |-> "number", v |-> <<n>>]
Cid(d) == [t |-> "cid", v |-> d]

NoTsize == [t |-> "undefined", k |-> "int", n |-> 0]
IntTsize(n) == [t |-> "number", k |-> "int", n |-> n]
FracTsize == [t |-> "number", k |-> "frac", n |-> 1]
NaNTsize == [t |-> "number", k |-> "nan", n |-> 0]
StrTsize == [t |-> "string", k |-> "int", n |-> 1]

Link(h, nm, ts, x) == [t |-> "object", Hash |-> h, Name |-> nm, Tsize |-> ts, Extra |-> x]
NullLink == [t |-> "null", Hash |-> Undefined, Name |-> Undefined, Tsize |-> NoTsize, Extra |-> FALSE]

Arr(items) == [t |-> "array", items |-> items]
NoLinks == [t |-> "undefined", items |-> <<>>]
NotArrayLinks == [t |-> "object", items |-> <<>>]

Obj(d, l, x) == [t |-> "object", v |-> <<>>, Data |-> d, Links |-> l, Extra |-> x]
Prim(t, v) == [t |-> t, v |-> v, Data |-> Undefined, Links |-> NoLinks, Extra |-> FALSE]
\* no value of this kind was supplied in this run
Nothing == Prim("nothing", <<>>)

\* JavaScript ToBoolean on a scalar value
Truthy(x) ==
  CASE x.t = "undefined" -> FALSE
    [] x.t = "string" -> x.v # <<>>
    [] x.t = "number" -> x.v # <<0>>
    [] OTHER -> TRUE

\* ------------------------------------------------------- text and numbers
RECURSIVE Flatten(_)
Flatten(ss) == IF ss = <<>> THEN <<>> ELSE Head(ss) \o Flatten(Tail(ss))

HighSurrogate(cp) == cp >= 55296 /\ cp <= 56319
LowSurrogate(cp) == cp >= 56320 /\ cp <= 57343

\* the UTF-8 bytes of one code point; a surrogate on its own becomes U+FFFD
Utf8Char(cp) ==
  IF HighSurrogate(cp) \/ LowSurrogate(cp) THEN <<239, 191, 189>>
  ELSE IF cp < 128 THEN <<cp>>
  ELSE IF cp < 2048 THEN <<192 + (cp \div 64), 128 + (cp % 64)>>
  ELSE IF cp < 65536
  THEN <<224 + (cp \div 4096), 128 + ((cp \div 64) % 64), 128 + (cp % 64)>>
  ELSE <<240 + (cp \div 262144), 128 + ((cp \div 4096) % 64),
         128 + ((cp \div 64) % 64), 128 + (cp % 64)>>

\* textEncoder.encode: a string to UTF-8 bytes, a high surrogate followed by a
\* low one being the single code point they spell
RECURSIVE TextEncode(_)
TextEncode(s) ==
  IF s = <<>> THEN <<>>
  ELSE IF Len(s) >= 2 /\ HighSurrogate(s[1]) /\ LowSurrogate(s[2])
  THEN Utf8Char(65536 + (s[1] - 55296) * 1024 + (s[2] - 56320))
         \o TextEncode(SubSeq(s, 3, Len(s)))
  ELSE Utf8Char(s[1]) \o TextEncode(Tail(s))

\* the decimal digits of a non-negative integer
RECURSIVE Digits(_)
Digits(n) == IF n < 10 THEN <<48 + n>> ELSE Digits(n \div 10) \o <<48 + (n % 10)>>

NumberText(n) == IF n < 0 THEN <<45>> \o Digits(-n) ELSE Digits(n)

\* the elements of a byte array joined by commas
RECURSIVE JoinNumbers(_)
JoinNumbers(b) ==
  IF b = <<>> THEN <<>>
  ELSE IF Len(b) = 1 THEN NumberText(b[1])
  ELSE NumberText(b[1]) \o <<44>> \o JoinNumbers(Tail(b))

Min(a, b) == IF a < b THEN a ELSE b

\* ------------------------------------------------- content identifiers
\* cid.bytes: version 1, codec 0x70, hash function 0x12, digest length, digest
CIDBytes(c) == <<1, 112, 18, Len(c.v)>> \o c.v

\* CID.decode(bytes); ok = FALSE when it throws
CIDDecode(h) ==
  IF /\ h.t = "Uint8Array"
     /\ Len(h.v) > 4
     /\ h.v[1] = 1
     /\ h.v[3] = 18
     /\ h.v[4] = Len(h.v) - 4
  THEN [ok |-> TRUE, cid |-> Cid(SubSeq(h.v, 5, Len(h.v)))]
  ELSE [ok |-> FALSE, cid |-> Undefined]

\* cid.toString(): multibase prefix 'b' and the symbols of the binary form
CIDText(c) == <<98>> \o CIDBytes(c)

\* CID.parse(text); ok = FALSE when it throws
CIDParse(h) ==
  IF h.t = "string" /\ Len(h.v) > 1 /\ h.v[1] = 98
  THEN CIDDecode(Bytes(Tail(h.v)))
  ELSE [ok |-> FALSE, cid |-> Undefined]

\* the string textEncoder.encode makes of its argument before encoding it; the
\* argument defaults to the empty string when it is undefined
JsString(x) ==
  CASE x.t = "undefined" -> <<>>
    [] x.t = "string" -> x.v
    [] x.t = "number" -> NumberText(x.v[1])
    [] x.t = "Uint8Array" -> JoinNumbers(x.v)
    [] x.t = "cid" -> CIDText(x)

\* ------------------------------------------------------------ comparator
\* what a call stands for when reading the Name of null throws a TypeError
ComparatorThrows == "TypeError"

\* faulty variant: the scan does not stop at the first differing byte
linkComparator_noBreak(a, b) ==
  IF a = b THEN 0
  ELSE IF a.t = "null" \/ b.t = "null" THEN ComparatorThrows
  ELSE
    LET abuf == IF Truthy(a.Name) THEN TextEncode(JsString(a.Name)) ELSE <<>>
        bbuf == IF Truthy(b.Name) THEN TextEncode(JsString(b.Name)) ELSE <<>>
        len == Min(Len(abuf), Len(bbuf))
        diff == {i \in 1..len : abuf[i] # bbuf[i]}
        last == CHOOSE i \in diff : \A j \in diff : j <= i
        x == IF diff = {} THEN Len(abuf) ELSE abuf[last]
        y == IF diff = {} THEN Len(bbuf) ELSE bbuf[last]
    IN IF x < y THEN -1 ELSE IF y < x THEN 1 ELSE 0

linkComparator(a, b) ==
  IF a = b THEN 0
  ELSE IF a.t = "null" \/ b.t = "null" THEN ComparatorThrows
  ELSE
    LET abuf == IF Truthy(a.Name) THEN TextEncode(JsString(a.Name)) ELSE <<>>
        bbuf == IF Truthy(b.Name) THEN TextEncode(JsString(b.Name)) ELSE <<>>
        len == Min(Len(abuf), Len(bbuf))
        diff == {i \in 1..len : abuf[i] # bbuf[i]}
        first == CHOOSE i \in diff : \A j \in diff : i <= j
        x == IF diff = {} THEN Len(abuf) ELSE abuf[first]
        y == IF diff = {} THEN Len(bbuf) ELSE bbuf[first]
    IN IF x < y THEN -1 ELSE IF y < x THEN 1 ELSE 0

\* faulty variant: the links stay in the order given
InsertLink_append(sorted, x) == sorted \o <<x>>

\* the stable sort of Array.prototype.sort under linkComparator
InsertLink(sorted, x) ==
  LET p == Cardinality({i \in 1..Len(sorted) : linkComparator(x, sorted[i]) >= 0})
  IN SubSeq(sorted, 1, p) \o <<x>> \o SubSeq(sorted, p + 1, Len(sorted))

RECURSIVE SortLinks(_)
SortLinks(s) ==
  IF s = <<>> THEN <<>>
  ELSE InsertLink(SortLinks(SubSeq(s, 1, Len(s) - 1)), s[Len(s)])

\* -------------------------------------------------------------- schema
pbNodeProperties == {"Data", "Links"}
pbLinkProperties == {"Hash", "Name", "Tsize"}

\* Object.keys of a node or link record; of a byte array, its indices
ObjectKeys(o) ==
  IF o.t = "Uint8Array" THEN {ToString(i - 1) : i \in 1..Len(o.v)}
  ELSE {k \in {"Data", "Links", "Hash", "Name", "Tsize"} \cap DOMAIN o : o[k].t # "undefined"}
         \cup (IF o.Extra THEN {"Extra"} ELSE {})

\* faulty variant: asks whether every recognized property is present
hasOnlyProperties_swapped(node, properties) ==
  ~ \E p \in properties : p \notin ObjectKeys(node)

hasOnlyProperties(node, properties) ==
  ~ \E p \in ObjectKeys(node) : p \notin properties

\* ------------------------------------------------------------- prepare
Thrown(msg) == [ok |-> FALSE, value |-> Nothing, error |-> msg]

\* faulty variant: Name is kept whatever its type
asLink_anyName(link) ==
  IF link.t # "object" THEN [ok |-> FALSE, link |-> NullLink, error |-> "TypeError"]
  ELSE
    LET asCID == IF link.Hash.t = "cid" THEN [ok |-> TRUE, cid |-> link.Hash]
                 ELSE [ok |-> TRUE, cid |-> Undefined]
        conv == IF asCID.cid # Undefined THEN asCID
                ELSE IF link.Hash.t = "string" THEN CIDParse(link.Hash)
                ELSE IF link.Hash.t = "Uint8Array" THEN CIDDecode(link.Hash)
                ELSE asCID
        hash == IF Truthy(link.Hash) /\ conv.ok THEN conv.cid ELSE Undefined
    IN IF Truthy(link.Hash) /\ ~conv.ok
       THEN [ok |-> FALSE, link |-> NullLink, error |-> "Invalid DAG-PB form: cid"]
       ELSE IF ~Truthy(hash)
       THEN [ok |-> FALSE, link |-> NullLink, error |-> "Invalid DAG-PB form"]
       ELSE [ok |-> TRUE,
             link |-> Link(hash,
                           link.Name,
                           IF link.Tsize.t = "number" THEN link.Tsize ELSE NoTsize,
                           FALSE),
             error |-> ""]

asLink(link) ==
  IF link.t # "object" THEN [ok |-> FALSE, link |-> NullLink, error |-> "TypeError"]
  ELSE
    LET asCID == IF link.Hash.t = "cid" THEN [ok |-> TRUE, cid |-> link.Hash]
                 ELSE [ok |-> TRUE, cid |-> Undefined]
        conv == IF asCID.cid # Undefined THEN asCID
                ELSE IF link.Hash.t = "string" THEN CIDParse(link.Hash)
                ELSE IF link.Hash.t = "Uint8Array" THEN CIDDecode(link.Hash)
                ELSE asCID
        hash == IF Truthy(link.Hash) /\ conv.ok THEN conv.cid ELSE Undefined
    IN IF Truthy(link.Hash) /\ ~conv.ok
       THEN [ok |-> FALSE, link |-> NullLink, error |-> "Invalid DAG-PB form: cid"]
       ELSE IF ~Truthy(hash)
       THEN [ok |-> FALSE, link |-> NullLink, error |-> "Invalid DAG-PB form"]
       ELSE [ok |-> TRUE,
             link |-> Link(hash,
                           IF link.Name.t = "string" THEN link.Name ELSE Undefined,
                           IF link.Tsize.t = "number" THEN link.Tsize ELSE NoTsize,
                           FALSE),
             error |-> ""]

prepare(node) ==
  LET n1 == IF node.t = "Uint8Array" THEN Obj(Bytes(node.v), Arr(<<>>), FALSE) ELSE node
      n2 == IF n1.t = "string" THEN Obj(Bytes(TextEncode(n1.v)), Arr(<<>>), FALSE) ELSE n1
      data == IF Truthy(n2.Data)
              THEN IF n2.Data.t = "string" THEN Bytes(TextEncode(n2.Data.v))
                   ELSE IF n2.Data.t = "Uint8Array" THEN n2.Data
                   ELSE Undefined
              ELSE Undefined
      items == n2.Links.items
      mapped == [i \in 1..Len(items) |-> asLink(items[i])]
      bad == {i \in 1..Len(items) : ~mapped[i].ok}
      firstBad == CHOOSE i \in bad : \A j \in bad : i <= j
      links == SortLinks([i \in 1..Len(items) |-> mapped[i].link])
  IN IF n2.t \notin {"object", "null"} THEN Thrown("Invalid DAG-PB form")
     ELSE IF n2.t = "null" THEN Thrown("TypeError")
     ELSE IF n2.Links.t = "array" /\ Len(items) > 0
     THEN IF bad # {} THEN Thrown(mapped[firstBad].error)
          ELSE [ok |-> TRUE, value |-> Obj(data, Arr(links), FALSE), error |-> ""]
     ELSE [ok |-> TRUE, value |-> Obj(data, Arr(<<>>), FALSE), error |-> ""]

\* ------------------------------------------------------------ validate
\* faulty variant: the order of the links is not checked
linkCheck_unordered(links, i) ==
  LET link == links[i] IN
  IF link.t # "object" THEN "Invalid DAG-PB form (bad link object)"
  ELSE IF ~hasOnlyProperties(link, pbLinkProperties)
  THEN "Invalid DAG-PB form (extraneous properties on link object)"
  ELSE IF ~Truthy(link.Hash) THEN "Invalid DAG-PB form (link must have a Hash)"
  ELSE IF link.Hash.t # "cid" THEN "Invalid DAG-PB form (link Hash must be a CID)"
  ELSE IF link.Name.t \notin {"undefined", "string"}
  THEN "Invalid DAG-PB form (link Name must be a string)"
  ELSE IF link.Tsize.t # "undefined" /\ (link.Tsize.t # "number" \/ link.Tsize.k # "int")
  THEN "Invalid DAG-PB form (link Tsize must be an integer)"
  ELSE "ok"

\* faulty variant: the Hash is checked only when there is one
linkCheck_optionalHash(links, i) ==
  LET link == links[i] IN
  IF link.t # "object" THEN "Invalid DAG-PB form (bad link object)"
  ELSE IF ~hasOnlyProperties(link, pbLinkProperties)
  THEN "Invalid DAG-PB form (extraneous properties on link object)"
  ELSE IF Truthy(link.Hash) /\ link.Hash.t # "cid"
  THEN "Invalid DAG-PB form (link Hash must be a CID)"
  ELSE IF link.Name.t \notin {"undefined", "string"}
  THEN "Invalid DAG-PB form (link Name must be a string)"
  ELSE IF link.Tsize.t # "undefined" /\ (link.Tsize.t # "number" \/ link.Tsize.k # "int")
  THEN "Invalid DAG-PB form (link Tsize must be an integer)"
  ELSE IF i > 1 /\ linkComparator(link, links[i - 1]) = -1
  THEN "Invalid DAG-PB form (links must be sorted by Name bytes)"
  ELSE "ok"

\* the first failing check of the loop body for link i, or "ok"
linkCheck(links, i) ==
  LET link == links[i] IN
  IF link.t # "object" THEN "Invalid DAG-PB form (bad link object)"
  ELSE IF ~hasOnlyProperties(link, pbLinkProperties)
  THEN "Invalid DAG-PB form (extraneous properties on link object)"
  ELSE IF ~Truthy(link.Hash) THEN "Invalid DAG-PB form (link must have a Hash)"
  ELSE IF link.Hash.t # "cid" THEN "Invalid DAG-PB form (link Hash must be a CID)"
  ELSE IF link.Name.t \notin {"undefined", "string"}
  THEN "Invalid DAG-PB form (link Name must be a string)"
  ELSE IF link.Tsize.t # "undefined" /\ (link.Tsize.t # "number" \/ link.Tsize.k # "int")
  THEN "Invalid DAG-PB form (link Tsize must be an integer)"
  ELSE IF i > 1 /\ linkComparator(link, links[i - 1]) = -1
  THEN "Invalid DAG-PB form (links must be sorted by Name bytes)"
  ELSE "ok"

\* the loop over the links from link i on: it stops at the first failing check
RECURSIVE checkLinks(_, _)
checkLinks(links, i) ==
  IF i > Len(links) THEN "ok"
  ELSE IF linkCheck(links, i) # "ok" THEN linkCheck(links, i)
  ELSE checkLinks(links, i + 1)

validate(node) ==
  IF node.t \notin {"object", "Uint8Array"} THEN "Invalid DAG-PB form"
  ELSE IF ~hasOnlyProperties(node, pbNodeProperties)
  THEN "Invalid DAG-PB form (extraneous properties)"
  ELSE IF node.Data.t \notin {"undefined", "Uint8Array"}
  THEN "Invalid DAG-PB form (Data must be a Uint8Array)"
  ELSE IF node.Links.t # "array" THEN "Invalid DAG-PB form (Links must be an array)"
  ELSE checkLinks(node.Links.items, 1)

\* ---------------------------------------------------------- wire codec
RECURSIVE Pow2(_)
Pow2(n) == IF n = 0 THEN 1 ELSE 2 * Pow2(n - 1)

\* base-128 varint of a non-negative integer, low group first
RECURSIVE Varint(_)
Varint(n) == IF n < 128 THEN <<n>> ELSE <<128 + (n % 128)>> \o Varint(n \div 128)

\* the unsigned wire integer carrying a Tsize
UintVarint(n) == Varint(n % Pow2(UintBits))

LenDelim(tag, payload) == <<tag>> \o Varint(Len(payload)) \o payload

encodeLink(link) ==
  (IF link.Hash.t # "undefined" THEN LenDelim(10, link.Hash.v) ELSE <<>>)
    \o (IF link.Name.t # "undefined" THEN LenDelim(18, TextEncode(link.Name.v)) ELSE <<>>)
    \o (IF link.Tsize.t # "undefined" THEN <<24>> \o UintVarint(link.Tsize.n) ELSE <<>>)

encodeNode(pbn) ==
  Flatten([i \in 1..Len(pbn.Links.items) |-> LenDelim(18, encodeLink(pbn.Links.items[i]))])
    \o (IF pbn.Data.t # "undefined" THEN LenDelim(10, pbn.Data.v) ELSE <<>>)

\* a varint read at position pos: its value and the position after it
VarintGroup(byte, rest) ==
  [ok |-> rest.ok, val |-> (byte - 128) + 128 * rest.val, next |-> rest.next]

RECURSIVE ReadVarint(_, _)
ReadVarint(b, pos) ==
  IF pos > Len(b) THEN [ok |-> FALSE, val |-> 0, next |-> pos]
  ELSE IF b[pos] < 128 THEN [ok |-> TRUE, val |-> b[pos], next |-> pos + 1]
  ELSE VarintGroup(b[pos], ReadVarint(b, pos + 1))

Malformed == [ok |-> FALSE, fields |-> <<>>]
FieldsCons(field, rest) == [ok |-> rest.ok, fields |-> <<field>> \o rest.fields]

\* the fields of a message from position pos on, each with its number, wire type and
\* payload: the bytes of a length-delimited field, the value of a varint field
RECURSIVE ReadFields(_, _)
RECURSIVE ReadField(_, _)
RECURSIVE ReadPayload(_, _, _, _)
ReadPayload(b, num, wt, n) ==
  IF ~n.ok THEN Malformed
  ELSE IF wt = 0
  THEN FieldsCons([num |-> num, wt |-> wt, bytes |-> <<>>, val |-> n.val],
                  ReadFields(b, n.next))
  ELSE IF wt = 2 /\ n.next + n.val - 1 <= Len(b)
  THEN FieldsCons([num |-> num, wt |-> wt,
                   bytes |-> SubSeq(b, n.next, n.next + n.val - 1), val |-> 0],
                  ReadFields(b, n.next + n.val))
  ELSE Malformed

ReadField(b, tag) ==
  IF ~tag.ok THEN Malformed
  ELSE ReadPayload(b, tag.val \div 8, tag.val % 8, ReadVarint(b, tag.next))

ReadFields(b, pos) ==
  IF pos > Len(b) THEN [ok |-> TRUE, fields |-> <<>>]
  ELSE ReadField(b, ReadVarint(b, pos))

\* UTF-8 decoding: the number of continuation bytes a lead byte calls for
Utf8Need(lead) ==
  IF lead >= 194 /\ lead <= 223 THEN 1
  ELSE IF lead >= 224 /\ lead <= 239 THEN 2
  ELSE IF lead >= 240 /\ lead <= 244 THEN 3
  ELSE 0

\* the range the k-th continuation byte must lie in
Utf8Lower(lead, k) ==
  IF k = 1 /\ lead = 224 THEN 160 ELSE IF k = 1 /\ lead = 240 THEN 144 ELSE 128
Utf8Upper(lead, k) ==
  IF k = 1 /\ lead = 237 THEN 159 ELSE IF k = 1 /\ lead = 244 THEN 143 ELSE 191

\* how many of the continuation bytes called for are there and in range
Utf8Good(b, need) ==
  Cardinality({k \in 1..need :
                 \A j \in 1..k :
                   /\ j + 1 <= Len(b)
                   /\ b[j + 1] >= Utf8Lower(b[1], j)
                   /\ b[j + 1] <= Utf8Upper(b[1], j)})

Utf8Value(b, need) ==
  IF need = 1 THEN (b[1] - 192) * 64 + (b[2] - 128)
  ELSE IF need = 2 THEN (b[1] - 224) * 4096 + (b[2] - 128) * 64 + (b[3] - 128)
  ELSE (b[1] - 240) * 262144 + (b[2] - 128) * 4096 + (b[3] - 128) * 64 + (b[4] - 128)

\* UTF-8 bytes to code points, U+FFFD standing for each ill-formed run
RECURSIVE Utf8Decode(_)
Utf8Decode(b) ==
  IF b = <<>> THEN <<>>
  ELSE IF b[1] < 128 THEN <<b[1]>> \o Utf8Decode(Tail(b))
  ELSE IF Utf8Need(b[1]) = 0 THEN <<65533>> \o Utf8Decode(Tail(b))
  ELSE IF Utf8Good(b, Utf8Need(b[1])) = Utf8Need(b[1])
  THEN <<Utf8Value(b, Utf8Need(b[1]))>>
         \o Utf8Decode(SubSeq(b, Utf8Need(b[1]) + 2, Len(b)))
  ELSE <<65533>> \o Utf8Decode(SubSeq(b, Utf8Good(b, Utf8Need(b[1])) + 2, Len(b)))

\* the text decoder, which drops a leading byte order mark
DropMark(s) == IF s # <<>> /\ s[1] = 65279 THEN Tail(s) ELSE s
TextDecode(b) == DropMark(Utf8Decode(b))

\* the last field of the given number and wire type, if any
LastField(fields, num, wt) ==
  LET hits == {i \in 1..Len(fields) : fields[i].num = num /\ fields[i].wt = wt}
  IN IF hits = {} THEN [found |-> FALSE, bytes |-> <<>>, val |-> 0]
     ELSE LET i == CHOOSE k \in hits : \A j \in hits : j <= k
          IN [found |-> TRUE, bytes |-> fields[i].bytes, val |-> fields[i].val]

LinkOfFields(parsed, hash, nm, ts) ==
  [ok |-> parsed.ok,
   link |-> Link(IF hash.found THEN Bytes(hash.bytes) ELSE Undefined,
                 IF nm.found THEN Str(TextDecode(nm.bytes)) ELSE Undefined,
                 IF ts.found THEN IntTsize(ts.val) ELSE NoTsize,
                 FALSE)]

LinkOf(parsed) ==
  LinkOfFields(parsed, LastField(parsed.fields, 1, 2), LastField(parsed.fields, 2, 2),
               LastField(parsed.fields, 3, 0))

decodeLink(b) == LinkOf(ReadFields(b, 1))

NodeOfFields(parsed, data, links) ==
  IF ~parsed.ok \/ \E i \in 1..Len(links) : ~links[i].ok
  THEN Thrown("protobuf: malformed message")
  ELSE [ok |-> TRUE,
        value |-> Obj(IF data.found THEN Bytes(data.bytes) ELSE Undefined,
                      Arr([i \in 1..Len(links) |-> links[i].link]),
                      FALSE),
        error |-> ""]

SubMessages(fields) == [i \in 1..Len(fields) |-> decodeLink(fields[i].bytes)]

NodeOf(parsed) ==
  NodeOfFields(parsed, LastField(parsed.fields, 1, 2),
               SubMessages(SelectSeq(parsed.fields, LAMBDA f : f.num = 2 /\ f.wt = 2)))

decodeNode(b) == NodeOf(ReadFields(b, 1))

\* ----------------------------------------------------- encode and decode
NoBytes == [ok |-> FALSE, bytes |-> <<>>, error |-> ""]

encode(node) ==
  LET v == validate(node)
      pbLink(l) == Link(IF Truthy(l.Hash) THEN Bytes(CIDBytes(l.Hash)) ELSE Undefined,
                        l.Name, l.Tsize, FALSE)
      links == IF node.Links.t = "array"
               THEN Arr([i \in 1..Len(node.Links.items) |-> pbLink(node.Links.items[i])])
               ELSE NoLinks
      pbn == Obj(IF Truthy(node.Data) THEN node.Data ELSE Undefined, links, FALSE)
  IN IF v # "ok" THEN [ok |-> FALSE, bytes |-> <<>>, error |-> v]
     ELSE [ok |-> TRUE, bytes |-> encodeNode(pbn), error |-> ""]

\* faulty variant: a link whose Hash does not decode is returned without one
decode_swallow(bytes) ==
  LET pbn == decodeNode(bytes)
      raw == pbn.value.Links.items
      hashes == [i \in 1..Len(raw) |-> CIDDecode(raw[i].Hash)]
      links == [i \in 1..Len(raw) |->
                  Link(hashes[i].cid, raw[i].Name, raw[i].Tsize, FALSE)]
  IN IF ~pbn.ok THEN Thrown(pbn.error)
     ELSE [ok |-> TRUE,
           value |-> Obj(IF Truthy(pbn.value.Data) THEN pbn.value.Data ELSE Undefined,
                         IF pbn.value.Links.t = "array" THEN Arr(links) ELSE NoLinks,
                         FALSE),
           error |-> ""]

decode(bytes) ==
  LET pbn == decodeNode(bytes)
      raw == pbn.value.Links.items
      hashes == [i \in 1..Len(raw) |-> CIDDecode(raw[i].Hash)]
      links == [i \in 1..Len(raw) |->
                  Link(hashes[i].cid, raw[i].Name, raw[i].Tsize, FALSE)]
  IN IF ~pbn.ok THEN Thrown(pbn.error)
     ELSE IF \E i \in 1..Len(raw) : ~hashes[i].ok \/ ~Truthy(hashes[i].cid)
     THEN Thrown("Invalid Hash field found in link, expected CID")
     ELSE [ok |-> TRUE,
           value |-> Obj(IF Truthy(pbn.value.Data) THEN pbn.value.Data ELSE Undefined,
                         IF pbn.value.Links.t = "array" THEN Arr(links) ELSE NoLinks,
                         FALSE),
           error |-> ""]

\* -------------------------------------------------------------- inputs
\* 'a', 'b' and the two-byte 'e-acute'
Alphabet == {97, 98, 233}
Names(A) == {Str(s) : s \in UNION {[1..n -> A] : n \in 0..MaxNameLen}}

Cid1 == Cid(<<1>>)
Cid2 == Cid(<<2>>)

\* names of three and four bytes, unpaired surrogates and a surrogate pair
WideNames ==
  {Str(<<8364>>), Str(<<128512>>), Str(<<55296>>), Str(<<57344>>), Str(<<55296, 56320>>)}
\* the two names whose order by code unit and by byte differ
SurrogateNames == {Str(<<55296>>), Str(<<57344>>)}

\* links handed to the comparator directly
CmpLinks ==
  {Link(Cid1, nm, NoTsize, FALSE) :
     nm \in {Undefined, Num(5), Num(0)} \cup Names(Alphabet) \cup WideNames}

\* records with k links drawn from the set S
Records(D, S, k) == {Obj(d, Arr(ls), FALSE) : d \in D, ls \in [1..k -> S]}

\* well-typed nodes whose links come in any order
OrderLinks ==
  {Link(Cid1, nm, NoTsize, FALSE) :
     nm \in {Undefined} \cup Names({97, 98}) \cup SurrogateNames}

\* well-typed nodes exercising every field
FieldLinks ==
  {Link(Cid1, nm, ts, FALSE) :
     nm \in {Undefined, Str(<<>>), Str(<<233>>)},
     ts \in {NoTsize, IntTsize(0), IntTsize(-5), IntTsize(300)}}
    \cup {Link(Cid2, Undefined, NoTsize, FALSE)}
    \cup {Link(Cid1, nm, NoTsize, FALSE) : nm \in {Str(<<8364>>), Str(<<128512>>), Str(<<55296>>)}}
FieldData == {Undefined, Bytes(<<>>), Bytes(<<7>>)}

\* nodes with faults in their links
FaultLinks ==
  {Link(h, nm, ts, x) :
     h \in {Undefined, Cid1, Bytes(CIDBytes(Cid1))},
     nm \in {Str(<<97>>), Num(5)},
     ts \in {IntTsize(1), FracTsize},
     x \in BOOLEAN} \cup {NullLink}

\* nodes with faults at the node level
FewLinks ==
  {Link(Cid1, Undefined, NoTsize, FALSE), Link(Cid1, Undefined, NoTsize, TRUE),
   Link(Undefined, Undefined, NoTsize, FALSE), Link(Undefined, Undefined, NoTsize, TRUE)}
NodeFaults(k) ==
  {Obj(d, Arr(ls), x) :
     d \in {Undefined, Bytes(<<7>>), Str(<<97>>)}, ls \in [1..k -> FewLinks], x \in BOOLEAN}
OddNodes ==
  {Obj(d, l, x) :
     d \in {Undefined, Bytes(<<7>>), Str(<<97>>)}, l \in {NoLinks, NotArrayLinks}, x \in BOOLEAN}
    \cup {Prim("null", <<>>), Prim("array", <<>>), Prim("string", <<97>>), Prim("number", <<5>>),
          Prim("Uint8Array", <<>>), Prim("Uint8Array", <<7>>)}

\* every form a caller may give a Hash in
HashFormLinks ==
  {Link(h, nm, NoTsize, FALSE) :
     h \in {Undefined, Cid1, Bytes(CIDBytes(Cid1)), Bytes(<<9>>), Str(CIDText(Cid2)),
            Str(<<120>>), Num(5)},
     nm \in {Undefined, Str(<<98>>)}}

\* what callers hand to prepare
Shorthands ==
  {Prim("Uint8Array", <<>>), Prim("Uint8Array", <<7>>), Prim("string", <<>>),
   Prim("string", <<97>>), Prim("string", <<233>>), Prim("string", <<128512>>),
   Prim("string", <<55296>>), Prim("number", <<5>>),
   Prim("undefined", <<>>), Prim("null", <<>>), Prim("array", <<>>)}
DataRecords ==
  {Obj(d, l, x) :
     d \in {Undefined, Bytes(<<>>), Bytes(<<7>>), Str(<<>>), Str(<<233>>), Num(0), Num(5)},
     l \in {NoLinks, NotArrayLinks, Arr(<<>>)},
     x \in BOOLEAN}
OrderInLinks ==
  {Link(Cid1, nm, NoTsize, FALSE) :
     nm \in {Undefined} \cup Names({97, 98}) \cup SurrogateNames}
    \cup {Link(Cid2, nm, NoTsize, FALSE) : nm \in {Undefined, Str(<<97>>)}}
LenientLinks ==
  {Link(Cid1, nm, ts, FALSE) :
     nm \in {Undefined, Str(<<97>>), Num(5)},
     ts \in {NoTsize, IntTsize(1), FracTsize, NaNTsize, StrTsize}}
    \cup {Link(Cid1, Str(<<97>>), IntTsize(1), TRUE), NullLink}

\* wire messages: encodings of raw records, whole, cut short, or led by an unknown field
RawHashes == {Undefined, Bytes(CIDBytes(Cid1)), Bytes(<<9>>), Bytes(<<>>)}
RawLinks ==
  {Link(h, Undefined, NoTsize, FALSE) : h \in RawHashes}
    \cup {Link(h, Str(<<97>>), IntTsize(300), FALSE) : h \in RawHashes}
Framings == {"whole", "cut short", "unknown field first"}
Framed(b, framing) ==
  CASE framing = "whole" -> Bytes(b)
    [] framing = "cut short" -> Bytes(SubSeq(b, 1, Len(b) - 1))
    [] framing = "unknown field first" -> Bytes(<<32, 1>> \o b)
Wires(k) ==
  {Framed(encodeNode(r), f) : r \in Records({Undefined, Bytes(<<7>>)}, RawLinks, k), f \in Framings}

\* --------------------------------------------------------- state machine
VARIABLES
  input,     \* the value handed to prepare, or Nothing
  node,      \* the node handed to validate and encode, or Nothing
  wire,      \* the bytes handed to decode, or Undefined
  pair,      \* the two links handed to the comparator, or <<>>
  prepared,  \* what prepare returned or threw
  verdict,   \* "ok" or the message validate threw
  encoded,   \* what encode returned or threw
  decoded,   \* what decode returned or threw
  cmp,       \* what the comparator returned
  done       \* the operations that have run

vars == <<input, node, wire, pair, prepared, verdict, encoded, decoded, cmp, done>>

Init ==
  /\ \/ /\ \/ input \in Shorthands
           \/ input \in DataRecords
           \/ \E k \in 0..MaxLinks :
                \/ input \in Records({Undefined}, OrderInLinks, k)
                \/ input \in Records({Undefined}, HashFormLinks, k)
                \/ input \in Records({Bytes(<<7>>)}, LenientLinks, k)
        /\ node = Nothing /\ wire = Undefined /\ pair = <<>>
     \/ /\ \/ node \in OddNodes
           \/ \E k \in 0..MaxLinks :
                \/ node \in Records({Undefined}, OrderLinks, k)
                \/ node \in Records(FieldData, FieldLinks, k)
                \/ node \in Records({Undefined}, FaultLinks, k)
                \/ node \in Records({Undefined}, HashFormLinks, k)
                \/ node \in NodeFaults(k)
        /\ input = Nothing /\ wire = Undefined /\ pair = <<>>
     \/ /\ \E k \in 0..MaxLinks : wire \in Wires(k)
        /\ input = Nothing /\ node = Nothing /\ pair = <<>>
     \/ /\ pair \in CmpLinks \X CmpLinks
        /\ input = Nothing /\ node = Nothing /\ wire = Undefined
  /\ prepared = Thrown("")
  /\ verdict = ""
  /\ encoded = NoBytes
  /\ decoded = Thrown("")
  /\ cmp = 0
  /\ done = {}

\* the caller normalizes its input and goes on with the node prepare returned
Prepare ==
  /\ input # Nothing
  /\ "prepare" \notin done
  /\ prepared' = prepare(input)
  /\ node' = IF prepared'.ok THEN prepared'.value ELSE node
  /\ done' = done \cup {"prepare"}
  /\ UNCHANGED <<input, wire, pair, verdict, encoded, decoded, cmp>>

Validate ==
  /\ node # Nothing
  /\ "validate" \notin done
  /\ verdict' = validate(node)
  /\ done' = done \cup {"validate"}
  /\ UNCHANGED <<input, node, wire, pair, prepared, encoded, decoded, cmp>>

\* the caller encodes its node and keeps the bytes
Encode ==
  /\ node # Nothing
  /\ "encode" \notin done
  /\ encoded' = encode(node)
  /\ wire' = IF encoded'.ok THEN Bytes(encoded'.bytes) ELSE wire
  /\ done' = done \cup {"encode"}
  /\ UNCHANGED <<input, node, pair, prepared, verdict, decoded, cmp>>

Decode ==
  /\ wire # Undefined
  /\ "decode" \notin done
  /\ decoded' = decode(wire.v)
  /\ done' = done \cup {"decode"}
  /\ UNCHANGED <<input, node, wire, pair, prepared, verdict, encoded, cmp>>

Compare ==
  /\ pair # <<>>
  /\ "compare" \notin done
  /\ cmp' = linkComparator(pair[1], pair[2])
  /\ done' = done \cup {"compare"}
  /\ UNCHANGED <<input, node, wire, pair, prepared, verdict, encoded, decoded>>

Next == Prepare \/ Validate \/ Encode \/ Decode \/ Compare

Spec == Init /\ [][Next]_vars

\* ------------------------------------------------------------- helpers
\* the UTF-8 bytes of a link's name, an absent name being the empty string
NameBytes(l) == IF l.Name.t = "string" THEN TextEncode(l.Name.v) ELSE <<>>

\* s sorts strictly before t in byte-wise lexicographic order
LexLess(s, t) ==
  \E k \in 0..Min(Len(s), Len(t)) :
    /\ \A i \in 1..k : s[i] = t[i]
    /\ \/ k = Len(s) /\ k < Len(t)
       \/ k < Len(s) /\ k < Len(t) /\ s[k + 1] < t[k + 1]

WellTypedLink(l) ==
  /\ l.t = "object" /\ ~l.Extra
  /\ l.Hash.t = "cid"
  /\ l.Name.t \in {"undefined", "string"}
  /\ l.Tsize.t = "undefined" \/ (l.Tsize.t = "number" /\ l.Tsize.k = "int")

\* a node that is well-formed but for the order of its links
WellTyped(n) ==
  /\ n.t = "object" /\ ~n.Extra
  /\ n.Data.t \in {"undefined", "Uint8Array"}
  /\ n.Links.t = "array"
  /\ \A i \in 1..Len(n.Links.items) : WellTypedLink(n.Links.items[i])

Decreasing(ls) == \E i \in 2..Len(ls) : LexLess(NameBytes(ls[i]), NameBytes(ls[i - 1]))

Count(seq, x) == Cardinality({i \in 1..Len(seq) : seq[i] = x})

SortedMsg == "Invalid DAG-PB form (links must be sorted by Name bytes)"
NodeExtraMsg == "Invalid DAG-PB form (extraneous properties)"
LinkExtraMsg == "Invalid DAG-PB form (extraneous properties on link object)"

\* ------------------------------------------------------------------ C1
\* C1 (as stated): decode(encode(N)) equals N for every node N that validates.
C1_RoundTrip ==
  (node # Nothing /\ {"encode", "decode"} \subseteq done /\ encoded.ok)
    => (decoded.ok /\ decoded.value = node)

\* ------------------------------------------------------------------ C2
\* C2: an otherwise well-formed node fails validate and encode exactly when
\* some adjacent pair of links is strictly decreasing by name bytes.
C2_CanonicalOrder ==
  (node # Nothing /\ WellTyped(node)) =>
    /\ "validate" \in done =>
         verdict = (IF Decreasing(node.Links.items) THEN SortedMsg ELSE "ok")
    /\ "encode" \in done =>
         /\ encoded.ok = ~Decreasing(node.Links.items)
         /\ ~encoded.ok => encoded.error = SortedMsg

C2_Witness ==
  /\ {"validate", "encode"} \subseteq done
  /\ input = Nothing
  /\ WellTyped(node)
  /\ Len(node.Links.items) = 2
  /\ node.Links.items[1].Name = Str(<<98>>)
  /\ node.Links.items[2].Name = Str(<<97>>)
  /\ verdict = SortedMsg
  /\ ~encoded.ok

\* ------------------------------------------------------------------ C3
\* C3 (as stated): prepare never returns a node whose Data is present but empty.
C3_NoEmptyData ==
  ("prepare" \in done /\ prepared.ok) =>
    (prepared.value.Data.t = "undefined"
       \/ (prepared.value.Data.t = "Uint8Array" /\ prepared.value.Data.v # <<>>))

\* ------------------------------------------------------------------ C4
KnownCids == {Cid1, Cid2}

\* the Hash is a content identifier or parses into one
Parseable(h) ==
  \/ h.t = "cid"
  \/ h.t = "Uint8Array" /\ \E c \in KnownCids : CIDBytes(c) = h.v
  \/ h.t = "string" /\ \E c \in KnownCids : CIDText(c) = h.v

\* the content identifier a parseable Hash stands for
ExpectedCid(h) ==
  IF h.t = "cid" THEN h
  ELSE IF h.t = "Uint8Array" THEN CHOOSE c \in KnownCids : CIDBytes(c) = h.v
  ELSE CHOOSE c \in KnownCids : CIDText(c) = h.v

HashMsgs ==
  {"Invalid DAG-PB form (link must have a Hash)",
   "Invalid DAG-PB form (link Hash must be a CID)"}

\* C4: validate fails for a node with a link that has no Hash or whose Hash is
\* raw bytes or text, although prepare accepts a link with a parseable Hash in
\* bytes or text and turns that Hash into a content identifier.
C4_RequiredHash ==
  /\ ( /\ "validate" \in done
       /\ node.t = "object"
       /\ node.Links.t = "array"
       /\ \E i \in 1..Len(node.Links.items) :
            /\ node.Links.items[i].t = "object"
            /\ node.Links.items[i].Hash.t \in {"undefined", "Uint8Array", "string"} )
       => verdict \notin {"ok", ""}
  /\ ( /\ "prepare" \in done
       /\ input.t = "object"
       /\ input.Links.t = "array"
       /\ \A i \in 1..Len(input.Links.items) :
            input.Links.items[i].t = "object" /\ Parseable(input.Links.items[i].Hash) )
       => /\ prepared.ok
          /\ Len(prepared.value.Links.items) = Len(input.Links.items)
          /\ \A c \in KnownCids :
               Cardinality({i \in 1..Len(input.Links.items) :
                              ExpectedCid(input.Links.items[i].Hash) = c})
                 = Cardinality({i \in 1..Len(prepared.value.Links.items) :
                                  prepared.value.Links.items[i].Hash = c})

C4_Witness ==
  /\ "validate" \in done
  /\ input = Nothing
  /\ node.t = "object"
  /\ node.Links = Arr(<<Link(Bytes(CIDBytes(Cid1)), Undefined, NoTsize, FALSE)>>)
  /\ verdict \in HashMsgs

\* ------------------------------------------------------------------ C5
HasExtra(n) ==
  \/ n.Extra
  \/ n.Links.t = "array"
       /\ \E i \in 1..Len(n.Links.items) : n.Links.items[i].t = "object" /\ n.Links.items[i].Extra

\* C5 (as stated): a node record with an unrecognized field, or containing a link
\* record with one, always fails validate with an extraneous-property error.
C5_ClosedSchemaAsStated ==
  ("validate" \in done /\ node.t = "object" /\ HasExtra(node))
    => verdict \in {NodeExtraMsg, LinkExtraMsg}

\* every check before link i passes: the node's own fields and the links before it
PassesUpTo(n, i) ==
  /\ ~n.Extra
  /\ n.Data.t \in {"undefined", "Uint8Array"}
  /\ \A j \in 1..(i - 1) :
       /\ WellTypedLink(n.Links.items[j])
       /\ j > 1 => ~LexLess(NameBytes(n.Links.items[j]), NameBytes(n.Links.items[j - 1]))

\* C5 (amended): such a node always fails validate; the error is the node's
\* extraneous-property error when the node has the unrecognized field, and the
\* link's extraneous-property error when every check before that link passes,
\* whatever the link's recognized fields hold.
C5_ClosedSchema ==
  ("validate" \in done /\ node.t = "object") =>
    /\ node.Extra => verdict = NodeExtraMsg
    /\ node.Links.t = "array" =>
         \A i \in 1..Len(node.Links.items) :
           (node.Links.items[i].t = "object" /\ node.Links.items[i].Extra) =>
             /\ verdict # "ok"
             /\ PassesUpTo(node, i) => verdict = LinkExtraMsg

C5_Witness ==
  /\ "validate" \in done
  /\ node.t = "object"
  /\ ~node.Extra
  /\ node.Links.t = "array"
  /\ Len(node.Links.items) = 2
  /\ WellTypedLink(node.Links.items[1])
  /\ node.Links.items[2].t = "object"
  /\ node.Links.items[2].Extra
  /\ node.Links.items[2].Hash = Undefined
  /\ verdict = LinkExtraMsg

\* ------------------------------------------------------------------ C6
\* a link whose Name is a string or absent
NamedByText(l) == l.Name.t \in {"undefined", "string"}

\* C6: the comparator returns -1, 0 or +1 and compare(a, b) = -compare(b, a); for
\* links whose Name is a string or absent it is the byte-wise lexicographic
\* comparison of the UTF-8 names (absent name = empty), a proper prefix sorting
\* first.
C6_Comparator ==
  "compare" \in done =>
    LET A == NameBytes(pair[1])
        B == NameBytes(pair[2])
    IN /\ cmp \in {-1, 0, 1}
       /\ cmp = -linkComparator(pair[2], pair[1])
       /\ (NamedByText(pair[1]) /\ NamedByText(pair[2])) =>
            /\ (cmp = -1) = LexLess(A, B)
            /\ (cmp = 1) = LexLess(B, A)
            /\ (cmp = 0) = (A = B)

C6_Witness ==
  /\ "compare" \in done
  /\ pair[1].Name = Str(<<97>>)
  /\ pair[2].Name = Str(<<97, 98>>)
  /\ cmp = -1

\* ------------------------------------------------------------------ C7
HashMissingOrBad(l) ==
  l.Hash.t = "undefined" \/ ~ \E c \in KnownCids : CIDBytes(c) = l.Hash.v

\* C7: decode throws, returning no node, when a link of the wire message has no
\* Hash or one that is no content identifier; every node it returns has, link by
\* link, the content identifier whose binary form the wire carries.
C7_DecodeRejects ==
  "decode" \in done =>
    LET p == decodeNode(wire.v)
        raw == p.value.Links.items
    IN /\ (p.ok /\ \E i \in 1..Len(raw) : HashMissingOrBad(raw[i]))
            => (~decoded.ok /\ decoded.value = Nothing)
       /\ decoded.ok =>
            /\ p.ok
            /\ decoded.value.Links.t = "array"
            /\ Len(decoded.value.Links.items) = Len(raw)
            /\ \A i \in 1..Len(raw) :
                 /\ decoded.value.Links.items[i].Hash.t = "cid"
                 /\ raw[i].Hash.t = "Uint8Array"
                 /\ CIDBytes(decoded.value.Links.items[i].Hash) = raw[i].Hash.v

C7_Witness ==
  /\ "decode" \in done
  /\ node = Nothing
  /\ decodeNode(wire.v).ok
  /\ Len(decodeNode(wire.v).value.Links.items) = 2
  /\ decodeNode(wire.v).value.Links.items[1].Hash = Bytes(CIDBytes(Cid1))
  /\ decodeNode(wire.v).value.Links.items[2].Hash = Bytes(<<9>>)
  /\ ~decoded.ok
  /\ decoded.error = "Invalid Hash field found in link, expected CID"

\* ------------------------------------------------------------------ C8
\* C8 (as stated): a valid node with a negative integer Tsize passes validate and
\* comes back from decode(encode(node)) with the same Tsize.
C8_TsizePassthrough ==
  ( /\ node # Nothing
    /\ WellTyped(node)
    /\ ~Decreasing(node.Links.items)
    /\ \E i \in 1..Len(node.Links.items) :
         node.Links.items[i].Tsize.t = "number" /\ node.Links.items[i].Tsize.n < 0 )
    => /\ "validate" \in done => verdict = "ok"
       /\ "decode" \in done =>
            /\ decoded.ok
            /\ Len(decoded.value.Links.items) = Len(node.Links.items)
            /\ \A i \in 1..Len(node.Links.items) :
                 decoded.value.Links.items[i].Tsize = node.Links.items[i].Tsize

\* ------------------------------------------------------------------ C9
\* what prepare makes of an acceptable link
ExpectedLink(l) ==
  Link(ExpectedCid(l.Hash),
       IF l.Name.t = "string" THEN l.Name ELSE Undefined,
       IF l.Tsize.t = "number" THEN l.Tsize ELSE NoTsize,
       FALSE)

\* C9: when prepare accepts an input with a non-empty Links sequence, the Links
\* it returns are the same links, non-decreasing by name bytes and by the
\* comparator; for absent, non-sequence or empty Links it returns the empty sequence.
C9_PrepareSorts ==
  ("prepare" \in done /\ prepared.ok) =>
    LET out == prepared.value.Links.items
        given == input.Links.items
        want == [i \in 1..Len(given) |-> ExpectedLink(given[i])]
    IN /\ prepared.value.Links.t = "array"
       /\ IF input.t = "object" /\ input.Links.t = "array" /\ Len(given) > 0
          THEN /\ Len(out) = Len(given)
               /\ \A i \in 1..Len(given) : Count(out, want[i]) = Count(want, want[i])
               /\ ~Decreasing(out)
               /\ \A i \in 2..Len(out) : linkComparator(out[i], out[i - 1]) # -1
          ELSE out = <<>>

C9_Witness ==
  /\ "prepare" \in done
  /\ prepared.ok
  /\ Len(input.Links.items) = 2
  /\ input.Links.items[1].Name = Str(<<98>>)
  /\ input.Links.items[2].Name = Str(<<97>>)
  /\ prepared.value.Links.items[1].Name = Str(<<97>>)
  /\ prepared.value.Links.items[2].Name = Str(<<98>>)

\* ----------------------------------------------------------------- C10
\* C10 (as stated): whatever prepare returns passes validate, and encode of it
\* does not fail.
C10_PreparedValidAsStated ==
  ("prepare" \in done /\ prepared.ok) =>
    /\ "validate" \in done => verdict = "ok"
    /\ "encode" \in done => encoded.ok

IntegerTsizes(n) ==
  \A i \in 1..Len(n.Links.items) :
    n.Links.items[i].Tsize.t = "number" => n.Links.items[i].Tsize.k = "int"

\* C10 (amended): whatever prepare returns passes validate, and encode of it does
\* not fail, provided every numeric Tsize of the input's links is an integer.
C10_PreparedValid ==
  ("prepare" \in done /\ prepared.ok /\ IntegerTsizes(input)) =>
    /\ "validate" \in done => verdict = "ok"
    /\ "encode" \in done => encoded.ok

C10_Witness ==
  /\ {"prepare", "validate", "encode"} \subseteq done
  /\ prepared.ok
  /\ Len(input.Links.items) = 2
  /\ input.Links.items[1].Hash.t = "string"
  /\ input.Links.items[2].Hash.t = "Uint8Array"
  /\ verdict = "ok"
  /\ encoded.ok

====
